---- MODULE Spec2Model ----
(***************************************************************************)
(* PipelineManager of terrain_and_stuff (resource_managers/pipelines.rs),  *)
(* native build: render pipelines built from shader files, a file watcher  *)
(* thread that sends change events over an mpsc channel, and the per-frame *)
(* reload_changed_pipelines sweep that drains the channel.                 *)
(*                                                                         *)
(* The sweep's `for path in rx.try_iter().unique()` pulls one event per    *)
(* loop iteration (try_iter calls try_recv lazily), so the watcher thread  *)
(* and the file system interleave with the sweep between iterations: one   *)
(* loop iteration is one step of the model.                                *)
(*                                                                         *)
(* ShaderCache (resource_managers/shader_cache.rs) is modelled next to it:  *)
(* the pipeline manager of this revision does not use the cache, so the    *)
(* cache has its own specification, CacheSpec, over the same shader files. *)
(*                                                                         *)
(* ErrorTracker (wgpu_error_handling/error_tracker.rs) and the frame loop  *)
(* that feeds it (main.rs) have the specification TrackerSpec.             *)
(***************************************************************************)
EXTENDS Integers, Sequences, FiniteSets, TLC

\* ---------------------------------------------------------------- bounds
MaxVersion == 2     \* distinct readable contents a shader file can take
MaxWrites == 2      \* file modifications in one behaviour
MaxEvents == 2      \* watcher events sent in one behaviour
MaxPipelines == 2   \* create_render_pipeline calls that register a pipeline
MaxCacheOps == 4    \* calls into the ShaderCache in one behaviour
MaxStack == 4       \* nested get_or_load_shader_source calls the stack holds
MaxFrame == 3       \* frames the application draws in one behaviour
MaxTrackerCalls == 6 \* calls into the ErrorTracker in one behaviour

\* ------------------------------------------------------------ the domain
\* Shader files, as paths relative to SHADERS_DIR.  X and Y are used as
\* entry points of pipelines, Z is a file that X imports.
Modules == {"X", "Y", "Z"}
EntryModules == {"X", "Y"}
\* The (vertex, fragment) shader pairs of the pipelines the application makes.
Descriptors ==
    {[vertex_shader |-> "X", fragment_shader |-> "X"],
     [vertex_shader |-> "Y", fragment_shader |-> "Y"],
     [vertex_shader |-> "X", fragment_shader |-> "Y"]}
Versions == 1..MaxVersion

\* The state of a file below SHADERS_DIR: it does not exist, it exists but
\* read_to_string fails on it (not UTF-8, no permission), or its content.
Absent == [kind |-> "absent", content |-> 0]
Unreadable == [kind |-> "unreadable", content |-> 0]
Text(v) == [kind |-> "text", content |-> v]
FileStates == {Absent, Unreadable} \cup {Text(v) : v \in Versions}

\* Imports declared in the source text of a shader (#import lines).
Imports == [m \in Modules |-> IF m = "X" THEN {"Z"} ELSE {}]

RECURSIVE ImportClosure(_, _)
ImportClosure(todo, done) ==
    IF todo = {} THEN done
    ELSE LET m == CHOOSE x \in todo : TRUE
         IN ImportClosure((todo \cup Imports[m]) \ (done \cup {m}), done \cup {m})

\* The transitive import closure of a shader file, the file itself included.
Closure(m) == ImportClosure({m}, {})

\* Paths as the watcher sends them.  The same file can be named by several
\* paths ("link": through a symlink below the watched directory), and a path
\* below the watched directory can lead outside of it.
RawPaths ==
    [via : {"direct"}, root : {"shaders"}, rel : Modules]
        \cup {[via |-> "link", root |-> "shaders", rel |-> "X"]}
        \cup {[via |-> "link", root |-> "elsewhere", rel |-> "O"]}

NoPath == "no_path"
NoPipeline == [id |-> 0, vs |-> 0, fs |-> 0]

\* notify::EventKind, as far as the watcher callback tells the kinds apart.
SendingKinds == {"Any", "Modify_Any", "Modify_Data"}
IgnoredKinds == {"Access", "Create", "Remove", "Other", "Modify_Other"}

\* ------------------------------------------------------------- the state
VARIABLES
    files,             \* the shader files on disk
    shader_modules,    \* PipelineManager::shader_modules: path -> module
    render_pipelines,  \* PipelineManager::render_pipelines: handle -> entry
    shader_change,     \* the mpsc channel shader_change_tx -> shader_change_rx
    pc,                \* "setup" (Application::new), "idle" (between frames)
                       \* or "sweep" (inside reload_changed_pipelines)
    unique_seen,       \* the paths itertools::unique has let through
    issued,            \* history: handles create_render_pipeline returned
    built,             \* history: pipeline objects a build returned as Ok
    reload_failed,     \* history: handles whose latest reload attempt failed
    last,              \* history: what the latest step did
    sweep,             \* history: the running (or latest) sweep
    fresh,             \* history, per queued event: sent after the latest
                       \* change of its file
    writes,            \* number of file modifications so far
    events,            \* number of watcher events sent so far
    shader_cache,      \* the ShaderCache: composer, shader_sources,
                       \* shader_modules, shader_sources_per_path
    cache_log,         \* history: the calls into the ShaderCache
    errors,            \* ErrorTracker::errors: error -> last_occurred_frame_index
    active_frame_index,                \* Application::active_frame_index
    frame_index_for_uncaptured_errors, \* the frame the device finished last
    tracker_log        \* history: the calls into the ErrorTracker

vars == <<files, shader_modules, render_pipelines, shader_change, pc,
          unique_seen, issued, built, reload_failed, last, sweep, fresh,
          writes, events, shader_cache, cache_log, errors,
          active_frame_index, frame_index_for_uncaptured_errors, tracker_log>>

\* The ShaderCache's part of the state, and the PipelineManager's.
cache_vars == <<shader_cache, cache_log>>
tracker_vars == <<errors, active_frame_index,
                  frame_index_for_uncaptured_errors, tracker_log>>
pipeline_vars == <<shader_modules, render_pipelines, shader_change, pc,
                   unique_seen, issued, built, reload_failed, last, sweep,
                   fresh, events>>

Handles == 1..MaxPipelines

Step(op, raw, module, invalidated, attempted, succeeded) ==
    [op |-> op, raw |-> raw, module |-> module, invalidated |-> invalidated,
     attempted |-> attempted, succeeded |-> succeeded]

NoRaw == [via |-> "none", root |-> "none", rel |-> "none"]

SweepInit ==
    [pending0 |-> 0, pipelines0 |-> <<>>, failed0 |-> {}, drained |-> 0,
     processed |-> {}, attempted |-> {}, used |-> {}, affected |-> {}]

\* ------------------------------------------------------- pure operations
\* std::fs::canonicalize of an event path: fails when the file is gone.
Canonicalize(raw) ==
    IF raw.root = "shaders" /\ files[raw.rel] = Absent
    THEN [ok |-> FALSE, root |-> "none", rel |-> NoPath]
    ELSE [ok |-> TRUE, root |-> raw.root, rel |-> raw.rel]

\* Path::strip_prefix(shader_base_path): fails outside the shader directory.
StripPrefix(abs) ==
    IF abs.root = "shaders" THEN [ok |-> TRUE, rel |-> abs.rel]
    ELSE [ok |-> FALSE, rel |-> NoPath]

\* The path a drained event denotes, NoPath when the loop skips the event.
ResolveEvent(raw) ==
    LET abs == Canonicalize(raw)
    IN IF ~abs.ok THEN NoPath ELSE StripPrefix([root |-> abs.root, rel |-> abs.rel]).rel

\* Faulty variant of load_shader_module: a read error is swallowed and an empty
\* source is compiled instead.
load_shader_module_ignore_error(path) ==
    IF files[path].kind = "text"
    THEN [ok |-> TRUE, module |-> files[path].content]
    ELSE [ok |-> TRUE, module |-> 0]

\* load_shader_module: fails exactly when the file cannot be read; the module
\* is identified by the content it was created from.
load_shader_module(path) ==
    IF files[path].kind = "text"
    THEN [ok |-> TRUE, module |-> files[path].content]
    ELSE [ok |-> FALSE, module |-> 0]

Insert(cache, path, module) ==
    [p \in DOMAIN cache \cup {path} |-> IF p = path THEN module ELSE cache[p]]

Remove(cache, path) == [p \in DOMAIN cache \ {path} |-> cache[p]]

\* Faulty variant of create_wgpu_render_pipeline: a failure empties the
\* shader module map.
create_wgpu_render_pipeline_clearing(cache, descriptor, id) ==
    LET vs == descriptor.vertex_shader
        fs == descriptor.fragment_shader
        lv == load_shader_module(vs)
        c1 == IF vs \in DOMAIN cache THEN cache
              ELSE IF lv.ok THEN Insert(cache, vs, lv.module) ELSE cache
        lf == load_shader_module(fs)
        c2 == IF fs \in DOMAIN c1 THEN c1
              ELSE IF lf.ok THEN Insert(c1, fs, lf.module) ELSE c1
    IN  IF vs \notin DOMAIN c1 \/ fs \notin DOMAIN c2
        THEN [ok |-> FALSE, cache |-> [x \in {} |-> 0], pipeline |-> NoPipeline]
        ELSE [ok |-> TRUE, cache |-> c2,
              pipeline |-> [id |-> id, vs |-> c2[vs], fs |-> c2[fs]]]

\* create_wgpu_render_pipeline: loads the shaders missing from the cache
\* (vertex first, `?` returns at the first failure and keeps what was
\* inserted before it), then creates the pipeline object `id`.
create_wgpu_render_pipeline(cache, descriptor, id) ==
    LET vs == descriptor.vertex_shader
        fs == descriptor.fragment_shader
        lv == load_shader_module(vs)
        c1 == IF vs \in DOMAIN cache THEN cache
              ELSE IF lv.ok THEN Insert(cache, vs, lv.module) ELSE cache
        lf == load_shader_module(fs)
        c2 == IF fs \in DOMAIN c1 THEN c1
              ELSE IF lf.ok THEN Insert(c1, fs, lf.module) ELSE c1
    IN  IF vs \notin DOMAIN c1
        THEN [ok |-> FALSE, cache |-> cache, pipeline |-> NoPipeline]
        ELSE IF fs \notin DOMAIN c2
        THEN [ok |-> FALSE, cache |-> c1, pipeline |-> NoPipeline]
        ELSE [ok |-> TRUE, cache |-> c2,
              pipeline |-> [id |-> id, vs |-> c2[vs], fs |-> c2[fs]]]

UsesPath(descriptor, path) ==
    descriptor.vertex_shader = path \/ descriptor.fragment_shader = path

Users(pipelines, path) ==
    {h \in DOMAIN pipelines : UsesPath(pipelines[h].descriptor, path)}

\* Lines 162-175 of the sweep: a cached module of the changed path is removed
\* and loaded again in isolation; without a cached module nothing is loaded.
ReloadShader(cache, path) ==
    IF path \notin DOMAIN cache THEN [hit |-> FALSE, ok |-> TRUE, cache |-> cache]
    ELSE LET l == load_shader_module(path)
         IN IF l.ok
            THEN [hit |-> TRUE, ok |-> TRUE,
                  cache |-> Insert(Remove(cache, path), path, l.module)]
            ELSE [hit |-> TRUE, ok |-> FALSE, cache |-> Remove(cache, path)]

\* Faulty variant of ApplyRebuild: a failed rebuild removes the pipeline's record.
ApplyRebuildDropOnFailure(pipelines, h, res) ==
    IF res.ok THEN [pipelines EXCEPT ![h].pipeline = res.pipeline]
    ELSE [x \in DOMAIN pipelines \ {h} |-> pipelines[x]]

\* The match on the rebuild's result: Ok replaces the entry's pipeline object,
\* Err only logs.
ApplyRebuild(pipelines, h, res) ==
    IF res.ok THEN [pipelines EXCEPT ![h].pipeline = res.pipeline]
    ELSE pipelines

\* The loop over render_pipelines.values_mut() (slot order) for one changed
\* path.  st carries the manager's fields and the history through the loop.
RECURSIVE RebuildFrom(_, _, _)
RebuildFrom(h, path, st) ==
    IF h > MaxPipelines THEN st
    ELSE IF h \notin DOMAIN st.pipelines
            \/ ~UsesPath(st.pipelines[h].descriptor, path)
    THEN RebuildFrom(h + 1, path, st)
    ELSE LET d == st.pipelines[h].descriptor
             res == create_wgpu_render_pipeline(st.cache, d, st.builds + 1)
         IN RebuildFrom(h + 1, path,
                [pipelines |-> ApplyRebuild(st.pipelines, h, res),
                 cache |-> res.cache,
                 builds |-> IF res.ok THEN st.builds + 1 ELSE st.builds,
                 built |-> IF res.ok THEN st.built \cup {res.pipeline} ELSE st.built,
                 attempted |-> st.attempted \cup {h},
                 succeeded |-> IF res.ok THEN st.succeeded \cup {h} ELSE st.succeeded,
                 used |-> IF res.ok
                          THEN st.used \cup (({d.vertex_shader, d.fragment_shader}
                                                \cap DOMAIN st.cache) \ {path})
                          ELSE st.used])

Builds == Cardinality(built)

\* Faulty variant of RegisterPipeline: the entry is inserted whether or not
\* the build succeeded.
RegisterPipelineAlways(pipelines, handle, descriptor, res) ==
    [h \in DOMAIN pipelines \cup {handle} |->
        IF h = handle
        THEN [pipeline |-> res.pipeline, descriptor |-> descriptor]
        ELSE pipelines[h]]

\* create_render_pipeline after the build: `?` returns the error before the
\* insert, so only a built pipeline gets an entry.
RegisterPipeline(pipelines, handle, descriptor, res) ==
    IF res.ok
    THEN [h \in DOMAIN pipelines \cup {handle} |->
            IF h = handle
            THEN [pipeline |-> res.pipeline, descriptor |-> descriptor]
            ELSE pipelines[h]]
    ELSE pipelines

\* get_render_pipeline: a lookup in the slot map.
get_render_pipeline(handle) ==
    IF handle \in DOMAIN render_pipelines
    THEN [some |-> TRUE, pipeline |-> render_pipelines[handle].pipeline]
    ELSE [some |-> FALSE, pipeline |-> NoPipeline]

\* The handles the manager records as broken: PipelineManager has no field
\* for them, and the Err branches of the sweep only log.
broken_pipelines == {}

EmptyMap == [x \in {} |-> 0]

\* ------------------------------------------------------- the ShaderCache
\* A readable text that naga_oil rejects (a syntax or type error).
Rejected == Text(0)
SourceStates == FileStates \cup {Rejected}

\* The preprocessor options a caller would want a shader compiled with, in
\* the order the caller lists them.
FlagLists == {<<>>, <<"a", "b">>, <<"b", "a">>}
FlagSet(flags) == {flags[i] : i \in DOMAIN flags}

\* naga_oil::compose::get_preprocessor_data: the #import lines of a source
\* text, here a table from the text (file and content) to its imports.
\* Content 1 is the same import graph as Imports; with content 2, X imports
\* itself, Y imports X and Z, and Z imports Y.
required_imports(path, content) ==
    IF content = 1 THEN (IF path = "X" THEN <<"Z">> ELSE <<>>)
    ELSE IF content = 2
         THEN (IF path = "X" THEN <<"X">>
               ELSE IF path = "Y" THEN <<"X", "Z">> ELSE <<"Y">>)
         ELSE <<>>

\* slotmap keys: the index of the slot and the version the slot had when the
\* key was given out.
NoHandle == [idx |-> 0, version |-> 0]
NoEntry == [file_path |-> NoPath, source |-> 0, direct_dependents |-> {}]
NoModule == [path |-> NoPath, source |-> 0]

\* SlotMap::default: no slot, an empty free list.
SlotMapNew == [slots |-> <<>>, free |-> <<>>]

SlotContains(sm, key) ==
    /\ key.idx \in DOMAIN sm.slots
    /\ sm.slots[key.idx].occupied
    /\ sm.slots[key.idx].version = key.version

SlotGet(sm, key) == sm.slots[key.idx].value

\* Faulty variant of SlotInsert: a freed slot is given out again under the
\* version it had before.
SlotInsertSameVersion(sm, value) ==
    IF sm.free # <<>>
    THEN LET idx == Head(sm.free)
         IN [map |-> [slots |-> [sm.slots EXCEPT ![idx] =
                                    [version |-> sm.slots[idx].version,
                                     occupied |-> TRUE, value |-> value]],
                      free |-> Tail(sm.free)],
             key |-> [idx |-> idx, version |-> sm.slots[idx].version]]
    ELSE [map |-> [slots |-> Append(sm.slots, [version |-> 1, occupied |-> TRUE,
                                               value |-> value]),
                   free |-> sm.free],
          key |-> [idx |-> Len(sm.slots) + 1, version |-> 1]]

\* SlotMap::insert: the slot freed last is used again under a new version,
\* otherwise a new slot is added.
SlotInsert(sm, value) ==
    IF sm.free # <<>>
    THEN LET idx == Head(sm.free)
             version == sm.slots[idx].version + 1
         IN [map |-> [slots |-> [sm.slots EXCEPT ![idx] =
                                    [version |-> version, occupied |-> TRUE,
                                     value |-> value]],
                      free |-> Tail(sm.free)],
             key |-> [idx |-> idx, version |-> version]]
    ELSE [map |-> [slots |-> Append(sm.slots, [version |-> 1, occupied |-> TRUE,
                                               value |-> value]),
                   free |-> sm.free],
          key |-> [idx |-> Len(sm.slots) + 1, version |-> 1]]

\* Faulty variant of SlotRemove: the entry stays in its slot.
SlotRemoveKeeping(sm, key) == sm

\* SlotMap::remove of a key that the map contains.
SlotRemove(sm, key) ==
    [slots |-> [sm.slots EXCEPT ![key.idx] =
                    [version |-> @.version, occupied |-> FALSE, value |-> NoEntry]],
     free |-> <<key.idx>> \o sm.free]

\* SecondaryMap: one slot per index that holds the key's version.
SecContains(sec, key) ==
    key.idx \in DOMAIN sec /\ sec[key.idx].version = key.version

SecInsert(sec, key, value) ==
    IF key.idx \in DOMAIN sec /\ sec[key.idx].version > key.version THEN sec
    ELSE [i \in DOMAIN sec \cup {key.idx} |->
            IF i = key.idx THEN [version |-> key.version, value |-> value]
            ELSE sec[i]]

\* Faulty variant of SecRemove: the module stays.
SecRemoveKeeping(sec, key) == sec

SecRemove(sec, key) ==
    IF SecContains(sec, key) THEN [i \in DOMAIN sec \ {key.idx} |-> sec[i]]
    ELSE sec

\* ShaderCache::new
ShaderCacheNew ==
    [composer |-> {}, shader_sources |-> SlotMapNew,
     shader_modules |-> EmptyMap, shader_sources_per_path |-> EmptyMap]

\* resolve_path: SHADERS_DIR joined with the path and canonicalized, which
\* fails when the file does not exist.
resolve_path(path) ==
    IF files[path] = Absent THEN [ok |-> FALSE, path |-> NoPath]
    ELSE [ok |-> TRUE, path |-> path]

\* raw_shader_source: std::fs::read_to_string.
raw_shader_source(path) ==
    IF files[path].kind = "text" THEN [ok |-> TRUE, source |-> files[path].content]
    ELSE [ok |-> FALSE, source |-> 0]

\* Composer::add_composable_module and Composer::make_naga_module accept a
\* source unless it is a rejected text or an import of it is unknown to the
\* composer.
ComposerAccepts(composer, path, source) ==
    /\ source # Rejected.content
    /\ \A i \in DOMAIN required_imports(path, source) :
          required_imports(path, source)[i] \in composer

\* The outcome of a call: Ok with a handle, Err with the error and the path
\* it names, or the stack is exhausted and the process aborts.
Outcome(kind, error, path, handle, cache, read, compiled) ==
    [kind |-> kind, error |-> error, path |-> path, handle |-> handle,
     cache |-> cache, read |-> read, compiled |-> compiled]

\* get_or_load_shader_source, called at nesting depth `depth`, and the
\* `.map(..).collect::<Result<Vec<_>, _>>()` over the imports, which stops at
\* the first error.
RECURSIVE get_or_load_shader_source(_, _, _)
RECURSIVE LoadImports(_, _, _, _)
LoadImports(cache, imports, depth, parents) ==
    IF imports = <<>>
    THEN [kind |-> "ok", error |-> "none", path |-> NoPath, cache |-> cache,
          read |-> {}, parents |-> parents]
    ELSE LET r == get_or_load_shader_source(cache, Head(imports), depth)
         IN IF r.kind # "ok"
            THEN [kind |-> r.kind, error |-> r.error, path |-> r.path,
                  cache |-> r.cache, read |-> r.read, parents |-> parents]
            ELSE LET rest == LoadImports(r.cache, Tail(imports), depth,
                                         parents \cup {r.handle})
                 IN [rest EXCEPT !.read = @ \cup r.read]

get_or_load_shader_source(cache, path, depth) ==
    IF depth > MaxStack
    THEN Outcome("stack_overflow", "none", path, NoHandle, cache, {}, FALSE)
    ELSE IF ~resolve_path(path).ok
    THEN Outcome("err", "FailedToLoadShaderSource", path, NoHandle, cache, {}, FALSE)
    ELSE IF path \in DOMAIN cache.shader_sources_per_path
    THEN (IF SlotContains(cache.shader_sources, cache.shader_sources_per_path[path])
          THEN Outcome("ok", "none", NoPath, cache.shader_sources_per_path[path],
                       cache, {}, FALSE)
          ELSE Outcome("panic", "assert", path, NoHandle, cache, {}, FALSE))
    ELSE IF ~raw_shader_source(path).ok
    THEN Outcome("err", "FailedToLoadShaderSource", path, NoHandle, cache, {}, FALSE)
    ELSE LET source == raw_shader_source(path).source
             li == LoadImports(cache, required_imports(path, source), depth + 1, {})
         IN IF li.kind # "ok"
            THEN Outcome(li.kind, li.error, li.path, NoHandle, li.cache,
                         li.read \cup {path}, FALSE)
            ELSE IF ~ComposerAccepts(li.cache.composer, path, source)
            THEN Outcome("err", "NagaOilComposeError", path, NoHandle,
                         [li.cache EXCEPT !.composer = @ \ {path}],
                         li.read \cup {path}, FALSE)
            ELSE LET ins == SlotInsert(li.cache.shader_sources,
                                [file_path |-> path, source |-> source,
                                 direct_dependents |-> {}])
                     handle == ins.key
                     slots == [i \in DOMAIN ins.map.slots |->
                                IF \E p \in li.parents : p.idx = i
                                THEN [ins.map.slots[i] EXCEPT
                                        !.value.direct_dependents = @ \cup {handle}]
                                ELSE ins.map.slots[i]]
                 IN Outcome("ok", "none", NoPath, handle,
                        [composer |-> li.cache.composer \cup {path},
                         shader_sources |-> [slots |-> slots, free |-> ins.map.free],
                         shader_modules |-> li.cache.shader_modules,
                         shader_sources_per_path |->
                            Insert(li.cache.shader_sources_per_path, path, handle)],
                        li.read \cup {path}, FALSE)

\* get_or_load_shader_module.  The function has no parameter for
\* preprocessor options (TODO in its doc comment), so a caller's options do
\* not reach it.
get_or_load_shader_module(cache, path) ==
    IF ~resolve_path(path).ok
    THEN Outcome("err", "FailedToLoadShaderSource", path, NoHandle, cache, {}, FALSE)
    ELSE LET src == IF path \in DOMAIN cache.shader_sources_per_path
                    THEN Outcome("ok", "none", NoPath,
                                 cache.shader_sources_per_path[path], cache, {}, FALSE)
                    ELSE get_or_load_shader_source(cache, path, 1)
         IN IF src.kind # "ok" THEN src
            ELSE IF SecContains(src.cache.shader_modules, src.handle) THEN src
            ELSE LET source == SlotGet(src.cache.shader_sources, src.handle).source
                 IN IF ~ComposerAccepts(src.cache.composer, path, source)
                    THEN Outcome("err", "NagaOilComposeError", path, NoHandle,
                                 src.cache, src.read, FALSE)
                    ELSE Outcome("ok", "none", NoPath, src.handle,
                            [src.cache EXCEPT !.shader_modules =
                                SecInsert(@, src.handle,
                                          [path |-> path, source |-> source])],
                            src.read, TRUE)

\* shader_module: a lookup in the secondary map.
shader_module(handle) ==
    IF SecContains(shader_cache.shader_modules, handle)
    THEN [some |-> TRUE, module |-> shader_cache.shader_modules[handle.idx].value]
    ELSE [some |-> FALSE, module |-> NoModule]

\* remove_shader_for_path and its loop over the removed source's
\* direct_dependents (a HashSet: the order of the loop is not fixed, and the
\* handles removed are the same in every order).  removed_shaders is the Vec
\* the call returns, removed the set of its elements.
RECURSIVE remove_shader_for_path(_, _)
RECURSIVE RemoveDependents(_, _)
\* Faulty variant of RemoveDependents: the dependents are removed, and their
\* handles are left out of the list that is returned.
RECURSIVE RemoveDependentsUnreported(_, _)
RemoveDependentsUnreported(cache, children) ==
    IF children = {} THEN [cache |-> cache, removed |-> {}, removed_shaders |-> <<>>]
    ELSE LET child == CHOOSE c \in children : TRUE
             r == IF SlotContains(cache.shader_sources, child)
                  THEN remove_shader_for_path(cache,
                            SlotGet(cache.shader_sources, child).file_path)
                  ELSE [cache |-> cache, removed |-> {}, removed_shaders |-> <<>>]
             rest == RemoveDependentsUnreported(r.cache, children \ {child})
         IN [cache |-> rest.cache, removed |-> {}, removed_shaders |-> <<>>]

\* Faulty variant of RemoveDependents: a dependent that is no longer in
\* shader_sources is put in the list once more.
RECURSIVE RemoveDependentsRepeating(_, _)
RemoveDependentsRepeating(cache, children) ==
    IF children = {} THEN [cache |-> cache, removed |-> {}, removed_shaders |-> <<>>]
    ELSE LET child == CHOOSE c \in children : TRUE
             r == IF SlotContains(cache.shader_sources, child)
                  THEN remove_shader_for_path(cache,
                            SlotGet(cache.shader_sources, child).file_path)
                  ELSE [cache |-> cache, removed |-> {child},
                        removed_shaders |-> <<child>>]
             rest == RemoveDependentsRepeating(r.cache, children \ {child})
         IN [cache |-> rest.cache, removed |-> r.removed \cup rest.removed,
             removed_shaders |-> r.removed_shaders \o rest.removed_shaders]

RemoveDependents(cache, children) ==
    IF children = {} THEN [cache |-> cache, removed |-> {}, removed_shaders |-> <<>>]
    ELSE LET child == CHOOSE c \in children : TRUE
             r == IF SlotContains(cache.shader_sources, child)
                  THEN remove_shader_for_path(cache,
                            SlotGet(cache.shader_sources, child).file_path)
                  ELSE [cache |-> cache, removed |-> {}, removed_shaders |-> <<>>]
             rest == RemoveDependents(r.cache, children \ {child})
         IN [cache |-> rest.cache, removed |-> r.removed \cup rest.removed,
             removed_shaders |-> r.removed_shaders \o rest.removed_shaders]

\* Faulty variant of remove_shader_for_path: a path without a record makes
\* the cache drop every compiled module.
remove_shader_for_path_dropping(cache, path) ==
    IF ~resolve_path(path).ok THEN [cache |-> cache, removed |-> {}, removed_shaders |-> <<>>]
    ELSE IF path \notin DOMAIN cache.shader_sources_per_path
    THEN [cache |-> [cache EXCEPT !.shader_modules = ShaderCacheNew.shader_modules],
          removed |-> {}, removed_shaders |-> <<>>]
    ELSE LET handle == cache.shader_sources_per_path[path]
             c1 == [cache EXCEPT !.shader_sources_per_path = Remove(@, path)]
             found == SlotContains(c1.shader_sources, handle)
             children == IF found
                         THEN SlotGet(c1.shader_sources, handle).direct_dependents
                         ELSE {}
             c2 == IF found
                   THEN [c1 EXCEPT !.shader_sources = SlotRemove(@, handle)]
                   ELSE c1
             rd == RemoveDependents(c2, children)
         IN [cache |-> [rd.cache EXCEPT !.composer = @ \ {path},
                                        !.shader_modules = SecRemove(@, handle)],
             removed |-> {handle} \cup rd.removed,
             removed_shaders |-> <<handle>> \o rd.removed_shaders]

remove_shader_for_path(cache, path) ==
    IF ~resolve_path(path).ok THEN [cache |-> cache, removed |-> {}, removed_shaders |-> <<>>]
    ELSE IF path \notin DOMAIN cache.shader_sources_per_path
    THEN [cache |-> cache, removed |-> {}, removed_shaders |-> <<>>]
    ELSE LET handle == cache.shader_sources_per_path[path]
             c1 == [cache EXCEPT !.shader_sources_per_path = Remove(@, path)]
             found == SlotContains(c1.shader_sources, handle)
             children == IF found
                         THEN SlotGet(c1.shader_sources, handle).direct_dependents
                         ELSE {}
             c2 == IF found
                   THEN [c1 EXCEPT !.shader_sources = SlotRemove(@, handle)]
                   ELSE c1
             rd == RemoveDependents(c2, children)
         IN [cache |-> [rd.cache EXCEPT !.composer = @ \ {path},
                                        !.shader_modules = SecRemove(@, handle)],
             removed |-> {handle} \cup rd.removed,
             removed_shaders |-> <<handle>> \o rd.removed_shaders]

\* The history of the calls: the latest call, the handle (and the options
\* asked for) that the latest successful get_or_load_shader_module of each
\* path returned, the handles returned so far, the handles that
\* remove_shader_for_path returned so far, and the list the latest call
\* returned if it was a remove_shader_for_path.
CacheCall(op, path, flags, kind, error, handle, removed, compiled, read) ==
    [op |-> op, path |-> path, flags |-> flags, kind |-> kind, error |-> error,
     handle |-> handle, removed |-> removed, compiled |-> compiled, read |-> read]

CacheLogInit ==
    [last |-> CacheCall("new", NoPath, <<>>, "ok", "none", NoHandle, {}, FALSE, {}),
     current |-> [p \in Modules |-> [handle |-> NoHandle, flags |-> {}]],
     returned |-> {}, dead |-> {}, removed_shaders |-> <<>>, ops |-> 0]

\* --------------------------------------------------------- ErrorTracker
\* The wgpu errors the frame loop can hand to the tracker: a validation
\* error, an internal error, an out-of-memory error, and a validation error
\* whose source is a CommandEncoderError (error_tracker.rs 102-132).
ErrorValues == {"validation", "internal", "out_of_memory", "command_encoder"}

\* The errors handle_error keys in ErrorTracker::errors: the Internal and
\* Validation arm, minus the command encoder errors it returns on.
TrackedErrors == {"validation", "internal"}

MapInsert(map, key, value) ==
    [k \in DOMAIN map \cup {key} |-> IF k = key THEN value ELSE map[k]]

\* ErrorTracker::handle_error: the new map and whether log::error! ran.
handle_error(tracked, error, frame_index) ==
    CASE error = "out_of_memory" -> [errors |-> tracked, logged |-> TRUE]
      [] error = "command_encoder" -> [errors |-> tracked, logged |-> FALSE]
      [] OTHER ->
           [errors |-> MapInsert(tracked, error, frame_index),
            logged |-> error \notin DOMAIN tracked]

\* Faulty variant of on_device_timeline_frame_finished: keeps every entry.
frame_finished_keeping_all(tracked, device_timeline_frame_index) == tracked

\* ErrorTracker::on_device_timeline_frame_finished: errors.retain.
on_device_timeline_frame_finished(tracked, device_timeline_frame_index) ==
    LET kept == {e \in DOMAIN tracked :
                    device_timeline_frame_index = tracked[e]}
    IN [e \in kept |-> tracked[e]]

\* ErrorTracker::handle_error_future on a wgpu-core backend, where every
\* scope's future is ready at once: handle_error for each scope that holds
\* an error, in order; `logged` lists what each call logged.
RECURSIVE handle_error_future(_, _, _)
handle_error_future(tracked, error_scope_result, frame_index) ==
    IF error_scope_result = <<>>
    THEN [errors |-> tracked, logged |-> <<>>]
    ELSE LET first == handle_error(tracked, Head(error_scope_result),
                                   frame_index)
             rest == handle_error_future(first.errors,
                                         Tail(error_scope_result), frame_index)
         IN [errors |-> rest.errors,
             logged |-> <<first.logged>> \o rest.logged]

\* The errors one frame's scopes can hold.
ScopeResults ==
    {<<>>} \cup {<<e>> : e \in ErrorValues}
           \cup {<<e1, e2>> : e1 \in ErrorValues, e2 \in ErrorValues}

\* History of the calls into the tracker.  seen: the errors ever reported;
\* last_frame[e]: the frame index of e's latest report; occurred[e]: the
\* frame indices e was reported with; lapsed[e]: since e's latest report a
\* frame finished in which e had not occurred; finished: the frames whose
\* last scope resolved.
TrackerLogInit ==
    [last |-> [op |-> "new", frame_index |-> 0, reported |-> <<>>,
               logged |-> <<>>],
     seen |-> {},
     last_frame |-> [e \in ErrorValues |-> 0],
     occurred |-> [e \in ErrorValues |-> {}],
     lapsed |-> [e \in ErrorValues |-> FALSE],
     finished |-> {},
     calls |-> 0]

\* ----------------------------------------------------------------- Init
\* PipelineManager::new: no shader module, no pipeline, an empty channel.
Init ==
    /\ files = [m \in Modules |-> Text(1)]
    /\ shader_modules = EmptyMap
    /\ render_pipelines = EmptyMap
    /\ shader_change = <<>>
    /\ pc = "setup"
    /\ unique_seen = {}
    /\ issued = {}
    /\ built = {}
    /\ reload_failed = {}
    /\ last = Step("new", NoRaw, NoPath, FALSE, {}, {})
    /\ sweep = SweepInit
    /\ fresh = <<>>
    /\ writes = 0
    /\ events = 0
    /\ shader_cache = ShaderCacheNew
    /\ cache_log = CacheLogInit
    /\ errors = EmptyMap
    /\ active_frame_index = 0
    /\ frame_index_for_uncaptured_errors = 0
    /\ tracker_log = TrackerLogInit

\* -------------------------------------------------------------- actions
\* A shader file is written, removed or made unreadable (editor, git, ...).
\* Only the entry point files are read by the manager; Z stays as it is.
FileChange(m, st) ==
    /\ writes < MaxWrites
    /\ st # files[m]
    /\ files' = [files EXCEPT ![m] = st]
    /\ writes' = writes + 1
    /\ last' = Step("file", NoRaw, m, FALSE, {}, {})
    /\ fresh' = [i \in DOMAIN fresh |-> fresh[i] /\ shader_change[i].rel # m]
    /\ UNCHANGED cache_vars
    /\ UNCHANGED tracker_vars
    /\ UNCHANGED <<shader_modules, render_pipelines, shader_change, pc,
                   unique_seen, issued, built, reload_failed, sweep, events>>

\* The watcher thread's callback for one path of an event: the kinds that
\* mean a data change send the path, all others are ignored.  (An event with
\* several paths sends them one by one; each send is one step.)
WatcherSend(kind, raw) ==
    /\ events < MaxEvents
    /\ kind \in SendingKinds
    /\ shader_change' = Append(shader_change, raw)
    /\ fresh' = Append(fresh, TRUE)
    /\ events' = events + 1
    /\ last' = Step("event", raw, NoPath, FALSE, {}, {})
    /\ UNCHANGED cache_vars
    /\ UNCHANGED tracker_vars
    /\ UNCHANGED <<files, shader_modules, render_pipelines, pc, unique_seen,
                   issued, built, reload_failed, sweep, writes>>

WatcherIgnore(kind) ==
    /\ events < MaxEvents
    /\ kind \in IgnoredKinds
    /\ UNCHANGED vars

\* create_render_pipeline: the renderers call it from their constructors,
\* all of them run by Application::new before the first frame.
CreateRenderPipeline(d) ==
    /\ pc = "setup"
    /\ Cardinality(issued) < MaxPipelines
    /\ LET res == create_wgpu_render_pipeline(shader_modules, d, Builds + 1)
           handle == Cardinality(issued) + 1
       IN /\ shader_modules' = res.cache
          /\ render_pipelines' = RegisterPipeline(render_pipelines, handle, d, res)
          /\ IF res.ok
             THEN /\ issued' = issued \cup {handle}
                  /\ built' = built \cup {res.pipeline}
                  /\ last' = Step("create", NoRaw, NoPath, FALSE, {handle}, {handle})
             ELSE /\ UNCHANGED <<issued, built>>
                  /\ last' = Step("create", NoRaw, NoPath, FALSE, {}, {})
    /\ UNCHANGED cache_vars
    /\ UNCHANGED tracker_vars
    /\ UNCHANGED <<files, shader_change, pc, unique_seen, reload_failed, sweep,
                   fresh, writes, events>>

\* reload_changed_pipelines is entered: the iterator over the channel and
\* its `unique` adaptor are created, nothing is received yet.
BeginSweep ==
    /\ pc \in {"setup", "idle"}
    /\ pc' = "sweep"
    /\ unique_seen' = {}
    /\ sweep' = [pending0 |-> Len(shader_change),
                 pipelines0 |-> render_pipelines, failed0 |-> reload_failed,
                 drained |-> 0, processed |-> {}, attempted |-> {},
                 used |-> {}, affected |-> {}]
    /\ last' = Step("begin", NoRaw, NoPath, FALSE, {}, {})
    /\ UNCHANGED cache_vars
    /\ UNCHANGED tracker_vars
    /\ UNCHANGED <<files, shader_modules, render_pipelines, shader_change,
                   issued, built, reload_failed, fresh, writes, events>>

\* Faulty variant of EndSweep: a call that ends drops the cached shader
\* modules, so that the next use loads them again.
EndSweepFlushing ==
    /\ pc = "sweep"
    /\ shader_change = <<>>
    /\ pc' = "idle"
    /\ shader_modules' = EmptyMap
    /\ last' = Step("end", NoRaw, NoPath, FALSE, {}, {})
    /\ UNCHANGED cache_vars
    /\ UNCHANGED tracker_vars
    /\ UNCHANGED <<files, render_pipelines, shader_change,
                   unique_seen, issued, built, reload_failed, sweep, fresh,
                   writes, events>>

\* try_recv finds the channel empty: the loop and the call end.
EndSweep ==
    /\ pc = "sweep"
    /\ shader_change = <<>>
    /\ pc' = "idle"
    /\ last' = Step("end", NoRaw, NoPath, FALSE, {}, {})
    /\ UNCHANGED cache_vars
    /\ UNCHANGED tracker_vars
    /\ UNCHANGED <<files, shader_modules, render_pipelines, shader_change,
                   unique_seen, issued, built, reload_failed, sweep, fresh,
                   writes, events>>

\* try_recv yields a path that `unique` has let through before: filtered.
SweepSkipDuplicate ==
    /\ pc = "sweep"
    /\ shader_change # <<>>
    /\ LET raw == Head(shader_change)
       IN /\ raw \in unique_seen
          /\ shader_change' = Tail(shader_change)
          /\ fresh' = Tail(fresh)
          /\ sweep' = [sweep EXCEPT !.drained = @ + 1]
          /\ last' = Step("duplicate", raw, NoPath, FALSE, {}, {})
    /\ UNCHANGED cache_vars
    /\ UNCHANGED tracker_vars
    /\ UNCHANGED <<files, shader_modules, render_pipelines, pc, unique_seen,
                   issued, built, reload_failed, writes, events>>

\* The path cannot be canonicalized or is not below the shader directory.
SweepSkipUnresolved ==
    /\ pc = "sweep"
    /\ shader_change # <<>>
    /\ LET raw == Head(shader_change)
       IN /\ raw \notin unique_seen
          /\ ResolveEvent(raw) = NoPath
          /\ shader_change' = Tail(shader_change)
          /\ fresh' = Tail(fresh)
          /\ unique_seen' = unique_seen \cup {raw}
          /\ sweep' = [sweep EXCEPT !.drained = @ + 1]
          /\ last' = Step("unresolved", raw, NoPath, FALSE, {}, {})
    /\ UNCHANGED cache_vars
    /\ UNCHANGED tracker_vars
    /\ UNCHANGED <<files, shader_modules, render_pipelines, pc, issued, built,
                   reload_failed, writes, events>>

\* The cached module of the changed path was removed and loading it again
\* failed: `continue`, the pipelines are kept outdated.
SweepReloadFailed ==
    /\ pc = "sweep"
    /\ shader_change # <<>>
    /\ LET raw == Head(shader_change)
           path == ResolveEvent(raw)
           rl == ReloadShader(shader_modules, path)
       IN /\ raw \notin unique_seen
          /\ path # NoPath
          /\ ~rl.ok
          /\ shader_change' = Tail(shader_change)
          /\ fresh' = Tail(fresh)
          /\ unique_seen' = unique_seen \cup {raw}
          /\ shader_modules' = rl.cache
          /\ reload_failed' = reload_failed \cup Users(render_pipelines, path)
          /\ sweep' = [sweep EXCEPT !.drained = @ + 1,
                                    !.processed = @ \cup {path},
                                    !.affected = @ \cup Users(render_pipelines, path)]
          /\ last' = Step("reload_failed", raw, path, rl.hit, {}, {})
    /\ UNCHANGED cache_vars
    /\ UNCHANGED tracker_vars
    /\ UNCHANGED <<files, render_pipelines, pc, issued, built, writes, events>>

\* The changed path had no cached module or was loaded again: every pipeline
\* that names the path as its vertex or fragment shader is built again.
SweepRebuild ==
    /\ pc = "sweep"
    /\ shader_change # <<>>
    /\ LET raw == Head(shader_change)
           path == ResolveEvent(raw)
           rl == ReloadShader(shader_modules, path)
           st == RebuildFrom(1, path,
                    [pipelines |-> render_pipelines, cache |-> rl.cache,
                     builds |-> Builds, built |-> built, attempted |-> {},
                     succeeded |-> {}, used |-> sweep.used])
       IN /\ raw \notin unique_seen
          /\ path # NoPath
          /\ rl.ok
          /\ shader_change' = Tail(shader_change)
          /\ fresh' = Tail(fresh)
          /\ unique_seen' = unique_seen \cup {raw}
          /\ shader_modules' = st.cache
          /\ render_pipelines' = st.pipelines
          /\ built' = st.built
          /\ reload_failed' =
                (reload_failed \ st.succeeded) \cup (st.attempted \ st.succeeded)
          /\ sweep' = [sweep EXCEPT !.drained = @ + 1,
                                    !.processed = @ \cup {path},
                                    !.attempted = @ \cup st.attempted,
                                    !.used = st.used,
                                    !.affected = @ \cup (st.attempted \ st.succeeded)]
          /\ last' = Step("rebuild", raw, path, rl.hit, st.attempted, st.succeeded)
    /\ UNCHANGED cache_vars
    /\ UNCHANGED tracker_vars
    /\ UNCHANGED <<files, pc, issued, writes, events>>

Next ==
    \/ \E m \in EntryModules, st \in FileStates : FileChange(m, st)
    \/ \E k \in SendingKinds, raw \in RawPaths : WatcherSend(k, raw)
    \/ \E k \in IgnoredKinds : WatcherIgnore(k)
    \/ \E d \in Descriptors : CreateRenderPipeline(d)
    \/ BeginSweep
    \/ EndSweep
    \/ SweepSkipDuplicate
    \/ SweepSkipUnresolved
    \/ SweepReloadFailed
    \/ SweepRebuild

Spec == Init /\ [][Next]_vars

\* ------------------------------------------------- the ShaderCache's steps
\* The process runs: no call has exhausted the stack or panicked.
Running == cache_log.last.kind \in {"ok", "err"}

\* A shader file is written, removed or made unreadable while the cache is
\* in use.
SourceChange(m, st) ==
    /\ writes < MaxWrites
    /\ st # files[m]
    /\ files' = [files EXCEPT ![m] = st]
    /\ writes' = writes + 1
    /\ UNCHANGED cache_vars
    /\ UNCHANGED tracker_vars
    /\ UNCHANGED pipeline_vars

\* A caller asks for the shader module of `path`, wanting the preprocessor
\* options `flags`.
GetOrLoadShaderModule(path, flags) ==
    /\ Running
    /\ cache_log.ops < MaxCacheOps
    /\ LET r == get_or_load_shader_module(shader_cache, path)
       IN /\ shader_cache' = r.cache
          /\ cache_log' =
                [last |-> CacheCall("get", path, flags, r.kind, r.error, r.handle,
                                    {}, r.compiled, r.read),
                 current |-> IF r.kind = "ok"
                             THEN [cache_log.current EXCEPT ![path] =
                                     [handle |-> r.handle, flags |-> FlagSet(flags)]]
                             ELSE cache_log.current,
                 returned |-> IF r.kind = "ok"
                              THEN cache_log.returned \cup {r.handle}
                              ELSE cache_log.returned,
                 dead |-> cache_log.dead,
                 removed_shaders |-> <<>>,
                 ops |-> cache_log.ops + 1]
    /\ UNCHANGED <<files, writes>>
    /\ UNCHANGED pipeline_vars
    /\ UNCHANGED tracker_vars

\* A caller invalidates `path`.
RemoveShaderForPath(path) ==
    /\ Running
    /\ cache_log.ops < MaxCacheOps
    /\ LET r == remove_shader_for_path(shader_cache, path)
       IN /\ shader_cache' = r.cache
          /\ cache_log' =
                [cache_log EXCEPT
                    !.last = CacheCall("remove", path, <<>>, "ok", "none", NoHandle,
                                       r.removed, FALSE, {}),
                    !.dead = @ \cup r.removed,
                    !.removed_shaders = r.removed_shaders,
                    !.ops = @ + 1]
    /\ UNCHANGED <<files, writes>>
    /\ UNCHANGED pipeline_vars
    /\ UNCHANGED tracker_vars

CacheNext ==
    \/ \E m \in Modules, st \in SourceStates : SourceChange(m, st)
    \/ \E path \in Modules, flags \in FlagLists : GetOrLoadShaderModule(path, flags)
    \/ \E path \in Modules : RemoveShaderForPath(path)

CacheSpec == Init /\ [][CacheNext]_vars

\* ------------------------------------------------- ErrorTracker actions
Elements(seq) == {seq[i] : i \in DOMAIN seq}

\* Application::update (main.rs 279): the next frame becomes active.
Update ==
    /\ active_frame_index < MaxFrame
    /\ active_frame_index' = active_frame_index + 1
    /\ UNCHANGED <<errors, frame_index_for_uncaptured_errors, tracker_log>>
    /\ UNCHANGED <<files, writes>>
    /\ UNCHANGED pipeline_vars
    /\ UNCHANGED cache_vars

\* Application::draw from error_scope.end() on (main.rs 429-445): the
\* errors of the frame's scopes are handled with the active frame index,
\* then the last scope's callback stores the index for the uncaptured-error
\* handler and finishes the frame.  A draw that returns early at start_frame
\* (main.rs 338-340) reaches none of this: the frame is never finished.
Draw(error_scope_result) ==
    /\ active_frame_index >= 1
    /\ active_frame_index \notin tracker_log.finished
    /\ tracker_log.calls < MaxTrackerCalls
    /\ LET f == active_frame_index
           handled == handle_error_future(errors, error_scope_result, f)
           now == Elements(error_scope_result)
           seen == tracker_log.seen \cup now
           occurred == [e \in ErrorValues |->
                          IF e \in now THEN tracker_log.occurred[e] \cup {f}
                          ELSE tracker_log.occurred[e]]
       IN /\ errors' = on_device_timeline_frame_finished(handled.errors, f)
          /\ frame_index_for_uncaptured_errors' = f
          /\ tracker_log' =
               [last |-> [op |-> "draw", frame_index |-> f,
                          reported |-> error_scope_result,
                          logged |-> handled.logged],
                seen |-> seen,
                last_frame |-> [e \in ErrorValues |->
                                  IF e \in now THEN f
                                  ELSE tracker_log.last_frame[e]],
                occurred |-> occurred,
                lapsed |-> [e \in ErrorValues |->
                              IF e \in now THEN FALSE
                              ELSE tracker_log.lapsed[e] \/ e \in seen],
                finished |-> tracker_log.finished \cup {f},
                calls |-> tracker_log.calls + 1]
    /\ UNCHANGED active_frame_index
    /\ UNCHANGED <<files, writes>>
    /\ UNCHANGED pipeline_vars
    /\ UNCHANGED cache_vars

\* The on_uncaptured_error handler (main.rs 207-216): an error raised
\* outside every error scope is handled with the index of the frame that
\* finished last.
UncapturedError(error) ==
    /\ tracker_log.calls < MaxTrackerCalls
    /\ LET f == frame_index_for_uncaptured_errors
           handled == handle_error(errors, error, f)
       IN /\ errors' = handled.errors
          /\ tracker_log' =
               [tracker_log EXCEPT
                  !.last = [op |-> "uncaptured", frame_index |-> f,
                            reported |-> <<error>>,
                            logged |-> <<handled.logged>>],
                  !.seen = @ \cup {error},
                  !.last_frame[error] = f,
                  !.occurred[error] = @ \cup {f},
                  !.lapsed[error] = FALSE,
                  !.calls = @ + 1]
    /\ UNCHANGED <<active_frame_index, frame_index_for_uncaptured_errors>>
    /\ UNCHANGED <<files, writes>>
    /\ UNCHANGED pipeline_vars
    /\ UNCHANGED cache_vars

TrackerNext ==
    \/ Update
    \/ \E error_scope_result \in ScopeResults : Draw(error_scope_result)
    \/ \E error \in ErrorValues : UncapturedError(error)

TrackerSpec == Init /\ [][TrackerNext]_vars

\* ---------------------------------------------------------------- claims
Descriptor(h) == render_pipelines[h].descriptor

FailedAttempts(step) == step.attempted \ step.succeeded

\* The step is one iteration of the sweep's loop: it receives the head of the
\* channel.
DrainStep ==
    /\ pc = "sweep"
    /\ shader_change # <<>>
    /\ shader_change' = Tail(shader_change)

\* The shader path that the event at the head of the channel denotes.
HeadPath == ResolveEvent(Head(shader_change))

\* C1: every handle that create_render_pipeline returned resolves through
\* get_render_pipeline, in every state, to a pipeline object that a
\* successful build returned: no sweep removes a record or stores the result
\* of a failed attempt.
C1_HandlesResolveToBuiltPipelines ==
    \A h \in issued :
        /\ get_render_pipeline(h).some
        /\ get_render_pipeline(h).pipeline \in built

\* A sweep has just failed to rebuild a registered pipeline.
C1_Witness ==
    /\ last.op = "rebuild"
    /\ FailedAttempts(last) \cap issued # {}

\* C2 as claimed, for the sweeps that receive only events the channel held
\* when they began, each for a different shader: after the sweep, every
\* pipeline affected by a failure of that sweep (the reload of one of its
\* shaders failed, or its rebuild failed) has the record (pipeline object and
\* shader paths) it had before the sweep.
C2_FailureKeepsPreSweepState ==
    (/\ last.op = "end"
     /\ sweep.drained <= sweep.pending0
     /\ Cardinality(sweep.processed) = sweep.drained)
        => \A h \in sweep.affected : render_pipelines[h] = sweep.pipelines0[h]

\* C3 as claimed: a handle is in the manager's broken set exactly when the
\* latest reload attempt for its pipeline failed.
C3_BrokenSetTracksFailures ==
    \A h \in issued : (h \in broken_pipelines) <=> (h \in reload_failed)

\* C4 as claimed: a sweep that has processed a change has made a rebuild
\* attempt for every pipeline whose latest attempt had failed before it.
C4_FailedPipelinesRetried ==
    (last.op = "end" /\ sweep.processed # {})
        => sweep.failed0 \subseteq sweep.attempted

\* C5 as claimed: when a sweep drains a change event of a shader, sent after
\* the shader's file was last changed, every pipeline that uses the shader,
\* whose latest reload had failed and whose shader files are all readable is
\* rebuilt: its handle resolves to a newly built object and it is no longer
\* failed.
C5_SelfHealing ==
    [][\A h \in DOMAIN render_pipelines :
          (/\ DrainStep
           /\ Head(fresh)
           /\ h \in reload_failed
           /\ HeadPath # NoPath
           /\ UsesPath(Descriptor(h), HeadPath)
           /\ load_shader_module(Descriptor(h).vertex_shader).ok
           /\ load_shader_module(Descriptor(h).fragment_shader).ok)
          => /\ h \notin reload_failed'
             /\ render_pipelines'[h].pipeline \in built' \ built]_vars

C7_DependentsRebuilt ==
    last.op = "rebuild"
        => \A h \in DOMAIN render_pipelines :
              last.module \in Closure(Descriptor(h).vertex_shader)
                                \cup Closure(Descriptor(h).fragment_shader)
              => h \in last.attempted

\* C8 as claimed: no module is invalidated in a sweep after a rebuild of the
\* same sweep was built from the module cached for it.
C8_InvalidationBeforeRebuilds ==
    [][(DrainStep /\ last'.invalidated) => last'.module \notin sweep.used]_vars

\* C9 as claimed: every event that a sweep processes was in the channel when
\* the sweep began.
C9_SweepHandlesOnlyInitialEvents ==
    [][(DrainStep /\ last'.op \in {"reload_failed", "rebuild"})
          => sweep.drained < sweep.pending0]_vars

\* C10 as claimed, in the part that is refuted: no event that the channel
\* held when the sweep began makes the sweep invalidate a module that it has
\* processed before and attempt the rebuild of the module's pipelines again.
C10_OneChangePerModule ==
    [][(DrainStep /\ sweep.drained < sweep.pending0)
          => ~(/\ last'.module \in sweep.processed
               /\ last'.invalidated
               /\ last'.attempted # {})]_vars

\* C11: a create_render_pipeline call that fails (a shader of the descriptor
\* can be neither taken from the cache nor loaded) returns an error and
\* leaves the registered pipelines as they were: no handle becomes resolvable
\* and no record changes.
C11_FailedCreateRegistersNothing ==
    [][(pc = "setup" /\ last'.op = "create" /\ last'.attempted = {})
          => /\ render_pipelines' = render_pipelines
             /\ issued' = issued
             /\ \A h \in Handles \ issued : ~get_render_pipeline(h).some']_vars

\* A create_render_pipeline call has just failed while another pipeline was
\* registered.
C11_Witness ==
    /\ last.op = "create"
    /\ last.attempted = {}
    /\ issued # {}

\* The step is a call of get_or_load_shader_module for `path`, or of
\* remove_shader_for_path for `path`.
GetStep(path) ==
    /\ cache_log'.ops = cache_log.ops + 1
    /\ cache_log'.last.op = "get"
    /\ cache_log'.last.path = path

RemoveStep(path) ==
    /\ cache_log'.ops = cache_log.ops + 1
    /\ cache_log'.last.op = "remove"
    /\ cache_log'.last.path = path

\* The handle that the latest successful request for `path` returned is
\* still valid: no remove_shader_for_path has returned it.
Live(path) ==
    /\ cache_log.current[path].handle # NoHandle
    /\ cache_log.current[path].handle \notin cache_log.dead

\* C12 as claimed: a request for a module that an earlier request has
\* returned a handle for, with the same set of options (in whatever order)
\* and with no invalidation of the handle in between, returns the same handle
\* and compiles nothing.
C12_CacheIdentity ==
    [][\A p \in Modules :
          (/\ GetStep(p)
           /\ Live(p)
           /\ FlagSet(cache_log'.last.flags) = cache_log.current[p].flags)
          => /\ cache_log'.last.kind = "ok"
             /\ cache_log'.last.handle = cache_log.current[p].handle
             /\ ~cache_log'.last.compiled]_vars

\* C13 as claimed: a request for a module with a set of options different
\* from the set that the still valid handle of the module was returned for
\* returns a different handle.
C13_CacheDistinctness ==
    [][\A p \in Modules :
          (/\ GetStep(p)
           /\ Live(p)
           /\ FlagSet(cache_log'.last.flags) # cache_log.current[p].flags
           /\ cache_log'.last.kind = "ok")
          => cache_log'.last.handle # cache_log.current[p].handle]_vars

\* The paths with a source entry in the cache, the imports of a cached
\* source, and the transitive import closure of a cached path (the path
\* itself included) over the cached sources.
CachedPaths == DOMAIN shader_cache.shader_sources_per_path

CachedHandle(path) == shader_cache.shader_sources_per_path[path]

CachedImports(path) ==
    LET source == SlotGet(shader_cache.shader_sources, CachedHandle(path)).source
    IN FlagSet(required_imports(path, source))

RECURSIVE CachedClosureFrom(_, _)
CachedClosureFrom(todo, done) ==
    IF todo = {} THEN done
    ELSE LET p == CHOOSE x \in todo : TRUE
             next == IF p \in CachedPaths THEN CachedImports(p) ELSE {}
         IN CachedClosureFrom((todo \cup next) \ (done \cup {p}), done \cup {p})

CachedClosure(path) == CachedClosureFrom({path}, {})

\* shader_module(handle) is Some after the step.
ResolvesAfter(handle) == SecContains(shader_cache'.shader_modules, handle)

\* C14 as claimed: remove_shader_for_path(m) for a cached m returns the
\* handle of every cached path whose import closure contains m (m's own
\* handle among them), and afterwards none of these paths is cached and none
\* of the handles resolves.
C14_TransitiveInvalidation ==
    [][\A m \in Modules :
          (RemoveStep(m) /\ m \in CachedPaths)
          => \A q \in CachedPaths :
                m \in CachedClosure(q)
                => /\ CachedHandle(q) \in cache_log'.last.removed
                   /\ q \notin CachedPaths'
                   /\ ~ResolvesAfter(CachedHandle(q))]_vars

C16_HandleValidity ==
    \A h \in cache_log.returned \ cache_log.dead : shader_module(h).some

\* A handle is still valid after another module was invalidated and a
\* request has failed.
C16_Witness ==
    /\ cache_log.last.op = "get"
    /\ cache_log.last.kind = "err"
    /\ cache_log.dead # {}
    /\ \E h \in cache_log.returned \ cache_log.dead : shader_module(h).some

\* The handle that the latest successful request for `path` returned has
\* since been returned by remove_shader_for_path.
Invalidated(path) ==
    /\ cache_log.current[path].handle # NoHandle
    /\ cache_log.current[path].handle \in cache_log.dead

FileImports(path) ==
    IF raw_shader_source(path).ok
    THEN FlagSet(required_imports(path, raw_shader_source(path).source))
    ELSE {}

RECURSIVE FileClosureFrom(_, _)
FileClosureFrom(todo, done) ==
    IF todo = {} THEN done
    ELSE LET m == CHOOSE x \in todo : TRUE
         IN FileClosureFrom((todo \cup FileImports(m)) \ (done \cup {m}),
                            done \cup {m})

\* The files that loading `path` visits, `path` included.
FileClosure(path) == FileClosureFrom({path}, {})

\* Loading `path` meets a file that imports itself, directly or through
\* other files.
CyclicImports(path) ==
    \E q \in FileClosure(path) : q \in FileClosureFrom(FileImports(q), {})

\* C18: a request for a module whose imports form a cycle (every file of it
\* readable, none of them cached) ends, and ends with an error value.
C18_CyclicImportsAreAnError ==
    [][\A p \in Modules :
          (/\ GetStep(p)
           /\ CyclicImports(p)
           /\ FileClosure(p) \cap CachedPaths = {}
           /\ \A q \in FileClosure(p) : raw_shader_source(q).ok)
          => cache_log'.last.kind = "err"]_vars

\* C19: every call of the cache returns: with a handle, or with an error
\* value that says which failure it was.  No call ends the process.
C19_FailuresAreErrorValues ==
    /\ cache_log.last.kind \in {"ok", "err"}
    /\ cache_log.last.kind = "err"
          => cache_log.last.error \in {"FailedToLoadShaderSource", "NagaOilComposeError"}

\* The handles recorded as direct dependents of the cached source of `path`.
DirectDependents(path) ==
    SlotGet(shader_cache.shader_sources, CachedHandle(path)).direct_dependents

\* C20: the dependent edges agree with the cached records.  Every handle in
\* a cached source's direct_dependents is the handle of a cached record whose
\* import closure contains that source, so no edge refers to a record that
\* was invalidated, and every cached record that imports a cached source is
\* among that source's direct_dependents.
C20_DependentEdgesSymmetric ==
    \A s \in CachedPaths :
        /\ \A h \in DirectDependents(s) :
              \E d \in CachedPaths : CachedHandle(d) = h /\ s \in CachedClosure(d)
        /\ \A d \in CachedPaths :
              s \in CachedImports(d) => CachedHandle(d) \in DirectDependents(s)

\* The cache holds something for `handle` after the step: a source entry or
\* a compiled module.
HeldAfter(handle) ==
    \/ SlotContains(shader_cache'.shader_sources, handle)
    \/ SecContains(shader_cache'.shader_modules, handle)

\* C21: after remove_shader_for_path(m) the cache holds no path mapping, no
\* source entry and no compiled module for m nor for any cached shader whose
\* imports lead to m, whatever the files are at the time of the call.
C21_RemoveErasesAllMemory ==
    [][\A m \in Modules :
          RemoveStep(m)
          => \A q \in CachedPaths :
                m \in CachedClosure(q)
                => /\ q \notin DOMAIN shader_cache'.shader_sources_per_path
                   /\ ~HeldAfter(CachedHandle(q))]_vars

\* The functions a shader source declares as entry points, in the order of
\* their declaration: content 1 declares a vertex function first, content 2
\* two fragment functions and then the vertex functions in another order.
entry_points(content) ==
    IF content = 1
    THEN <<[name |-> "vs_main", stage |-> "vertex"],
           [name |-> "fs_main", stage |-> "fragment"],
           [name |-> "vs_other", stage |-> "vertex"]>>
    ELSE <<[name |-> "fs_alt", stage |-> "fragment"],
           [name |-> "fs_main", stage |-> "fragment"],
           [name |-> "vs_other", stage |-> "vertex"],
           [name |-> "vs_main", stage |-> "vertex"]>>

NoFunction == "no_function"

\* Faulty variant of first_in: the last function of the stage is taken.
last_in(content, stage) ==
    LET fns == entry_points(content)
        of_stage == {i \in DOMAIN fns : fns[i].stage = stage}
    IN IF of_stage = {} THEN NoFunction
       ELSE fns[CHOOSE i \in of_stage : \A j \in of_stage : j <= i].name

\* ShaderEntryPoint::first_in: a reference that names no function stands for
\* the first function of the required stage in the module's source.
first_in(content, stage) ==
    LET fns == entry_points(content)
        of_stage == {i \in DOMAIN fns : fns[i].stage = stage}
    IN IF of_stage = {} THEN NoFunction
       ELSE fns[CHOOSE i \in of_stage : \A j \in of_stage : i <= j].name

\* The entry points of a pipeline object: create_wgpu_render_pipeline hands
\* the references of the descriptor to the device together with the modules
\* the object is built from.
VertexEntryPoint(pipeline) == first_in(pipeline.vs, "vertex")
FragmentEntryPoint(pipeline) == first_in(pipeline.fs, "fragment")

\* `name` is declared for `stage` in the source, and no function of that
\* stage is declared before it.
FirstMatch(content, stage, name) ==
    LET fns == entry_points(content)
    IN \E i \in DOMAIN fns :
          /\ fns[i].name = name
          /\ fns[i].stage = stage
          /\ \A j \in 1..(i - 1) : fns[j].stage # stage

C23_ImportsOfCachedAreCached ==
    \A q \in CachedPaths : CachedImports(q) \subseteq CachedPaths

\* C24: from its entry to its end, a reload_changed_pipelines call that
\* receives no event loads no shader, builds no pipeline, reports no failure
\* and leaves the cached modules and every pipeline record as they were, also
\* when pipelines are outdated after a failed reload.
C24_IdleSweepDoesNothing ==
    [][(\/ pc' = "sweep" /\ sweep'.drained = 0
        \/ pc = "sweep" /\ pc' = "idle" /\ sweep.drained = 0)
       => /\ shader_modules' = shader_modules
          /\ render_pipelines' = render_pipelines
          /\ built' = built
          /\ reload_failed' = reload_failed
          /\ last'.attempted = {}
          /\ last'.op # "reload_failed"]_vars

\* A call ended without having received an event while a pipeline was
\* outdated after a failed reload.
C24_Witness ==
    /\ last.op = "end"
    /\ sweep.drained = 0
    /\ reload_failed # {}
    /\ DOMAIN shader_modules # {}

\* ------------------------------------------------------------------ C25
\* A step that called handle_error, from draw or the uncaptured handler.
ReportStep == tracker_log'.calls # tracker_log.calls

DrawStep == ReportStep /\ tracker_log'.last.op = "draw"

\* In the step's list of reports, error was already reported before i.
EarlierInStep(error, i) ==
    \E j \in 1..(i - 1) : tracker_log'.last.reported[j] = error

\* For the errors of Errs: one reported from the scopes of two consecutive
\* frames, each frame finished after its errors, is not logged in the second
\* frame; a report of one that was reported before is logged only if, since
\* its latest report, a frame finished in which it had not occurred; and
\* finishing frame f leaves tracked exactly the tracked errors whose latest
\* report carries frame index f.
LoggedOncePerRun(Errs) ==
    LET l == tracker_log'.last
        f == l.frame_index
        about == {i \in DOMAIN l.reported : l.reported[i] \in Errs}
    IN /\ DrawStep =>
            \A i \in about :
               (\/ (f - 1) \in tracker_log.finished
                     /\ (f - 1) \in tracker_log.occurred[l.reported[i]]
                \/ EarlierInStep(l.reported[i], i))
               => ~l.logged[i]
       /\ ReportStep =>
            \A i \in about :
               (l.logged[i] /\ (\/ l.reported[i] \in tracker_log.seen
                                \/ EarlierInStep(l.reported[i], i)))
               => /\ tracker_log.lapsed[l.reported[i]]
                  /\ ~EarlierInStep(l.reported[i], i)
       /\ DrawStep =>
            /\ \A e \in DOMAIN errors' : tracker_log'.last_frame[e] = f
            /\ \A e \in DOMAIN errors \cup
                        (Elements(l.reported) \cap TrackedErrors) :
                  tracker_log'.last_frame[e] = f => e \in DOMAIN errors'

LiveSources ==
    {[idx |-> i, version |-> shader_cache.shader_sources.slots[i].version] :
        i \in {j \in DOMAIN shader_cache.shader_sources.slots :
                  shader_cache.shader_sources.slots[j].occupied}}

\* C26: every handle in the path-to-handle map is the key of a live source
\* entry whose file_path is the map's key, every live source entry is the
\* target of exactly one path, and no call ends in the failed assertion of
\* get_or_load_shader_source.
C26_PathMapMatchesSources ==
    /\ \A q \in DOMAIN shader_cache.shader_sources_per_path :
          /\ SlotContains(shader_cache.shader_sources,
                          shader_cache.shader_sources_per_path[q])
          /\ SlotGet(shader_cache.shader_sources,
                     shader_cache.shader_sources_per_path[q]).file_path = q
    /\ \A h \in LiveSources :
          Cardinality({q \in DOMAIN shader_cache.shader_sources_per_path :
                          shader_cache.shader_sources_per_path[q] = h}) = 1
    /\ cache_log.last.kind # "panic"

\* A removal took a module and an importer of it out of the cache while
\* another module stays cached, in a slot that was used before.
C26_Witness ==
    /\ cache_log.last.op = "remove"
    /\ Cardinality(cache_log.last.removed) >= 2
    /\ \E h \in LiveSources : h.version > 1


\* ------------------------------------------------------------------ C27
\* The keys of the compiled shader modules.
CompiledModules ==
    {[idx |-> i, version |-> shader_cache.shader_modules[i].version] :
        i \in DOMAIN shader_cache.shader_modules}

\* C27: every handle that has a compiled shader module has a live source
\* entry.
C27_CompiledHaveSources ==
    \A h \in CompiledModules : SlotContains(shader_cache.shader_sources, h)

\* A removal took out a handle that had been compiled and returned, and a
\* compiled module of another handle remains.
C27_Witness ==
    /\ cache_log.last.op = "remove"
    /\ cache_log.last.removed \cap cache_log.returned # {}
    /\ CompiledModules # {}


\* ------------------------------------------------------------------ C28
\* C28: remove_shader_for_path returns (the call ends with a list), the
\* list holds no handle twice, and its handles are exactly those whose
\* source entries were live before the call and are not live after it.
C28_RemovedListExact ==
    [][\A m \in Modules :
          RemoveStep(m) =>
             /\ cache_log'.last.kind = "ok"
             /\ Cardinality(Elements(cache_log'.removed_shaders))
                   = Len(cache_log'.removed_shaders)
             /\ Elements(cache_log'.removed_shaders)
                   = LiveSources \ LiveSources'
      ]_vars

\* Y imports X and Z, X imports Z, all three were loaded and Z is removed:
\* Y is a dependent of Z and of X, and the list holds three handles.
C28_Witness ==
    /\ cache_log.last.op = "remove"
    /\ cache_log.last.path = "Z"
    /\ Len(cache_log.removed_shaders) = 3
    /\ writes = 1
    /\ files = [m \in Modules |-> IF m = "Y" THEN Text(2) ELSE Text(1)]


\* ------------------------------------------------------------------ C29
\* C29 as stated: a failed create_render_pipeline leaves the manager as it
\* was, the cached shader modules included.
C29_FailedCreateChangesNothing ==
    [][(pc = "setup" /\ last'.op = "create" /\ last'.attempted = {})
          => /\ shader_modules' = shader_modules
             /\ render_pipelines' = render_pipelines
             /\ built' = built]_vars

\* C29, amended: a failed create_render_pipeline leaves the pipelines and
\* every cached shader module as they were; it adds at most one shader
\* module, the vertex shader of a descriptor whose fragment shader cannot be
\* loaded.
C29_FailedCreateKeepsVertexShader ==
    [][(pc = "setup" /\ last'.op = "create" /\ last'.attempted = {})
          => /\ render_pipelines' = render_pipelines
             /\ built' = built
             /\ \A q \in DOMAIN shader_modules :
                   /\ q \in DOMAIN shader_modules'
                   /\ shader_modules'[q] = shader_modules[q]
             /\ \/ shader_modules' = shader_modules
                \/ \E d \in Descriptors :
                      /\ DOMAIN shader_modules' \ DOMAIN shader_modules
                            = {d.vertex_shader}
                      /\ shader_modules'[d.vertex_shader]
                            = load_shader_module(d.vertex_shader).module
                      /\ d.fragment_shader \notin DOMAIN shader_modules'
                      /\ ~load_shader_module(d.fragment_shader).ok]_vars

\* A create_render_pipeline call failed and its vertex shader is the one
\* module in the map; no pipeline exists.
C29_Witness ==
    /\ last.op = "create"
    /\ last.attempted = {}
    /\ render_pipelines = EmptyMap
    /\ Cardinality(DOMAIN shader_modules) = 1


\* ------------------------------------------------------------------ C30
\* C30: after get_or_load_shader_module of a path returns an error, the
\* cache has no path mapping and no source entry for the path.
C30_ErrorLeavesNoSource ==
    [][\A m \in Modules :
          (GetStep(m) /\ cache_log'.last.kind = "err")
             => /\ m \notin DOMAIN shader_cache'.shader_sources_per_path
                /\ \A h \in LiveSources' :
                      SlotGet(shader_cache'.shader_sources, h).file_path # m
      ]_vars

====
